---- MODULE Spec2Model ----
(***************************************************************************)
(* A model of pyfuzzball: the MCP session of pyfuzzball/mcp.py (escape,    *)
(* unescape, version_compare, the handshake of the constructor, negotiate, *)
(* call, process) over the line transport of pyfuzzball/base.py.           *)
(*                                                                         *)
(* A Python str is a sequence of one-character strings, so that indexing,  *)
(* slicing, split, replace and startswith are computed as Python computes  *)
(* them.  A dict that the code iterates (the catalog, the arguments of a   *)
(* call) is a sequence of entries in insertion order; a dict that is only  *)
(* looked up (parameters, return_value) is a function.                     *)
(***************************************************************************)
EXTENDS Integers, Sequences, FiniteSets, TLC

(***************************************************************************)
(* Bounds of the model.                                                    *)
(***************************************************************************)
\* longest text given to escape in SpecEscape
MaxStrLen == 5
\* payloads the client writes in one behaviour
MaxWritten == 2
\* lines the server sends of its own in one behaviour of SpecInbound
MaxSent == 3
\* lines the server sends in one behaviour of SpecHandshake
MaxGreeting == 3

VARIABLES
    auth,               \* self.auth
    catalog,            \* self.catalog, in insertion order
    client_negotiated,  \* self.client_negotiated
    written,            \* the payloads given to write(), in order
    inflight,           \* lines the server has sent that have not arrived yet
    incoming,           \* lines that have arrived and readline has not returned
    peer_closed,        \* the server has shut the connection down
    sent,               \* how many lines the server has sent of its own
    pc,                 \* where process is: idle, tail, returned, raised
    lines,              \* process: the lines its first loop collected
    idx,                \* process: how many of them the for loop has handled
    tail_lines,         \* process: the lines its last loop read
    locals,             \* process: its other local variables
    last_call,          \* the most recent call and how it ended
    last_negotiate,     \* the most recent negotiate and how it ended
    handshake,          \* __init__ and _negotiate: their local variables
    base,               \* FuzzballBase: its fields, and what its caller last saw
    version_in,         \* SpecVersion: the versions to compare
    version_out,        \* SpecVersion: what version_compare returned for them
    text_in,            \* SpecEscape: the text to escape
    escaped,            \* SpecEscape: escape(text_in)
    unescaped           \* SpecEscape: unescape(escaped)

vars == <<auth, catalog, client_negotiated, written, inflight, incoming, peer_closed,
          sent, pc, lines, idx, tail_lines, locals, last_call, last_negotiate, handshake,
          base, version_in, version_out, text_in, escaped, unescaped>>

(***************************************************************************)
(* Python str primitives.                                                  *)
(***************************************************************************)
\* s[i:] for 0 <= i (0-based, as in the code)
From(s, i) == SubSeq(s, i + 1, Len(s))

\* s[:i] for 0 <= i
Upto(s, i) == SubSeq(s, 1, IF i < Len(s) THEN i ELSE Len(s))

\* s.startswith(p)
startswith(s, p) == Len(p) <= Len(s) /\ SubSeq(s, 1, Len(p)) = p

\* s.find(sub) as a 1-based position, 0 when sub does not occur
find(s, sub) ==
    LET hits == {i \in 1..(Len(s) - Len(sub) + 1) : SubSeq(s, i, i + Len(sub) - 1) = sub}
    IN  IF hits = {} THEN 0 ELSE CHOOSE i \in hits : \A j \in hits : i <= j

\* sub in s
contains(s, sub) == find(s, sub) # 0

\* s.split(sep, maxsplit); maxsplit = -1 is "no limit"
RECURSIVE split(_, _, _)
split(s, sep, maxsplit) ==
    LET i == find(s, sep)
    IN  IF maxsplit = 0 \/ i = 0
        THEN <<s>>
        ELSE <<SubSeq(s, 1, i - 1)>> \o split(From(s, i - 1 + Len(sep)), sep, maxsplit - 1)

\* s.replace(old, new): leftmost, non-overlapping occurrences
RECURSIVE replace(_, _, _)
replace(s, old, new) ==
    IF Len(s) < Len(old) THEN s
    ELSE IF SubSeq(s, 1, Len(old)) = old
         THEN new \o replace(From(s, Len(old)), old, new)
         ELSE <<s[1]>> \o replace(Tail(s), old, new)

\* x.isspace() for one character
isspace(x) == x \in {" ", "\t", "\r", "\n"}

\* s.strip()
RECURSIVE lstrip(_)
lstrip(s) == IF s # <<>> /\ isspace(s[1]) THEN lstrip(Tail(s)) ELSE s

RECURSIVE rstrip(_)
rstrip(s) == IF s # <<>> /\ isspace(s[Len(s)]) THEN rstrip(SubSeq(s, 1, Len(s) - 1)) ELSE s

strip(s) == rstrip(lstrip(s))

\* "".join(parts)
RECURSIVE join(_)
join(parts) == IF parts = <<>> THEN <<>> ELSE Head(parts) \o join(Tail(parts))

BS == "\\"
DQ == "\""
SP == " "
CRLF == <<"\r", "\n">>

(***************************************************************************)
(* MCP.escape and MCP.unescape.                                            *)
(***************************************************************************)
\* escape that leaves backslashes alone
escape_quotes_only(txt) == replace(txt, <<DQ>>, <<BS, DQ>>)

escape(txt) == replace(replace(txt, <<BS>>, <<BS, BS>>), <<DQ>>, <<BS, DQ>>)

unescape(txt) == replace(replace(txt, <<BS, BS>>, <<BS>>), <<BS, DQ>>, <<DQ>>)

(***************************************************************************)
(* Python values used by process.                                          *)
(***************************************************************************)
\* a parameter value: a str, or a list of str
Str(v) == [list |-> FALSE, str |-> v, items |-> <<>>]

List(xs) == [list |-> TRUE, str |-> <<>>, items |-> xs]

\* the empty dict
EmptyDict == <<>>

\* d[k] = v
put(d, k, v) == [x \in (DOMAIN d) \cup {k} |-> IF x = k THEN v ELSE d[x]]

\* current_req = {}
NoReq == [set |-> FALSE, package |-> <<>>, message |-> <<>>, parameters |-> EmptyDict, id |-> 0]

\* the key that carries the data tag of a multi-line message
DATA_TAG_KEY == <<"_", "d", "a", "t", "a", "-", "t", "a", "g">>

\* the prefix of every MCP line
MCP_PREFIX == <<"#", "$", "#">>

(***************************************************************************)
(* process: the argument state machine of a header line.                   *)
(***************************************************************************)
\* the locals of the state machine before the first character
parser_start(ml) ==
    [key |-> <<>>, value |-> <<>>, is_escaped |-> FALSE, key_accumulate |-> TRUE,
     in_quote |-> FALSE, parameters |-> EmptyDict, multi_liners |-> ml]

\* the closing quote of a value: commit the parameter
parser_commit(s) ==
    IF s.key # <<>> /\ s.key[Len(s.key)] = "*"
    THEN LET k == SubSeq(s.key, 1, Len(s.key) - 1)
         IN  [s EXCEPT !.key_accumulate = TRUE, !.in_quote = FALSE,
                       !.multi_liners = Append(@, k),
                       !.parameters = put(@, k, List(<<>>)),
                       !.key = <<>>, !.value = <<>>]
    ELSE [s EXCEPT !.key_accumulate = TRUE, !.in_quote = FALSE,
                   !.parameters = put(@, s.key, Str(s.value)),
                   !.key = <<>>, !.value = <<>>]

\* one iteration of "for x in parts[2].strip()"
parser_char(s, x) ==
    IF s.key_accumulate
    THEN IF x = ":" THEN [s EXCEPT !.key_accumulate = FALSE]
         ELSE IF x = SP /\ s.key = <<>> THEN s
         ELSE [s EXCEPT !.key = Append(@, x)]
    ELSE IF ~s.in_quote
    THEN IF x = DQ THEN [s EXCEPT !.in_quote = TRUE]
         ELSE IF x # SP /\ s.key = DATA_TAG_KEY
              THEN [s EXCEPT !.in_quote = TRUE, !.value = <<x>>]
         ELSE s
    ELSE IF s.is_escaped
    THEN [s EXCEPT !.value = Append(@, x), !.is_escaped = FALSE]
    ELSE IF x = BS THEN [s EXCEPT !.is_escaped = TRUE]
    ELSE IF x = DQ THEN parser_commit(s)
    ELSE IF isspace(x) /\ s.key = DATA_TAG_KEY
    THEN [s EXCEPT !.in_quote = FALSE, !.key_accumulate = TRUE,
                   !.parameters = put(@, s.key, Str(s.value)),
                   !.key = <<>>, !.value = <<>>]
    ELSE [s EXCEPT !.value = Append(@, x)]

RECURSIVE parser_loop(_, _)
parser_loop(s, text) ==
    IF text = <<>> THEN s ELSE parser_loop(parser_char(s, Head(text)), Tail(text))

\* the cleanup after the loop: an unquoted _data-tag that ends the line
parser_finish(s) ==
    IF s.key = DATA_TAG_KEY
    THEN [s EXCEPT !.in_quote = FALSE, !.key_accumulate = TRUE,
                   !.parameters = put(@, s.key, Str(s.value)),
                   !.key = <<>>, !.value = <<>>]
    ELSE s

\* the state machine over parts[2]
parse_arguments(text, ml) == parser_finish(parser_loop(parser_start(ml), strip(text)))

\* "Let's see if our state machine is in a weird state."
parser_weird(s) == ~s.key_accumulate \/ s.in_quote \/ s.is_escaped

(***************************************************************************)
(* process: the locals and the handling of one line.  The locals are a     *)
(* record st; err names the exception that ended the call ("" for none).   *)
(* A committed multi-line message holds the parameters dict of current_req *)
(* itself, not a copy: id names the dict, and an append to it shows in     *)
(* every entry of return_value that holds it.                              *)
(***************************************************************************)
process_start ==
    [return_value |-> EmptyDict, unknown_lines |-> <<>>, current_req |-> NoReq,
     multi_liners |-> <<>>, data_tag |-> Str(<<>>), next_id |-> 1, err |-> ""]

raise(st, e) == [st EXCEPT !.err = e]

\* unknown_lines.append(line)
unknown(st, line) == [st EXCEPT !.unknown_lines = Append(@, line)]

\* return_value[package] gets one more message
deliver(st, package, message, parameters, id) ==
    LET entry == [message |-> message, parameters |-> parameters, id |-> id]
        rv == st.return_value
    IN  [st EXCEPT !.return_value =
            IF package \in DOMAIN rv
            THEN [rv EXCEPT ![package] = Append(@, entry)]
            ELSE put(rv, package, <<entry>>)]

\* current_req['parameters'][key].append(value)
append_value(st, key, value) ==
    LET req == st.current_req
        rv == st.return_value
    IN  IF ~req.set \/ key \notin DOMAIN req.parameters THEN raise(st, "KeyError")
        ELSE IF ~req.parameters[key].list THEN raise(st, "AttributeError")
        ELSE LET np == [req.parameters EXCEPT ![key] = List(Append(@.items, value))]
             IN  [st EXCEPT
                    !.current_req = [req EXCEPT !.parameters = np],
                    !.return_value =
                        [p \in DOMAIN rv |->
                            [i \in 1..Len(rv[p]) |->
                                IF rv[p][i].id = req.id
                                THEN [rv[p][i] EXCEPT !.parameters = np]
                                ELSE rv[p][i]]]]

\* a "#$#*" line while multi_liners is not empty
continuation(st, line) ==
    LET halves == split(line, <<":">>, 1)
    IN  IF Len(halves) # 2 THEN raise(st, "ValueError")
        ELSE LET meta_details == split(halves[1], <<SP>>, -1)
                 value == halves[2]
             IN  IF Len(meta_details) < 2 THEN raise(st, "IndexError")
                 ELSE IF st.data_tag # Str(meta_details[2]) THEN unknown(st, line)
                 ELSE IF Len(meta_details) < 3 THEN raise(st, "IndexError")
                 ELSE IF \A i \in 1..Len(st.multi_liners) :
                            st.multi_liners[i] # meta_details[3]
                      THEN unknown(st, line)
                 ELSE append_value(st, meta_details[3], From(value, 1))

\* a "#$#:" line while multi_liners is not empty
terminator(st) ==
    IF ~st.current_req.set
    THEN raise([st EXCEPT !.multi_liners = <<>>], "KeyError")
    ELSE deliver([st EXCEPT !.multi_liners = <<>>], st.current_req.package,
                 st.current_req.message, st.current_req.parameters, st.current_req.id)

\* the "if multi_liners:" block of the for loop
multiline_block(st, line) ==
    IF Len(line) < 4 THEN raise(st, "IndexError")
    ELSE IF line[4] = "*" THEN continuation(st, line)
    ELSE IF line[4] = ":" THEN terminator(st)
    ELSE st

\* the packages of the catalog that the tag of a header may belong to
potential_matches(tag, cat) ==
    LET Prefix(e) == startswith(tag, e.name \o <<"-">>)
    IN  SelectSeq(cat, Prefix)

\* the package a header is delivered under
desired_package(tag, cat) ==
    LET pm == potential_matches(tag, cat)
    IN  IF Len(pm) > 1 /\ \E i \in 1..Len(pm) : pm[i].name = tag
        THEN tag
        ELSE pm[1].name

\* a header line: everything of the for loop after the multi-line block
header(st, line, a, cat) ==
    LET parts == split(From(line, 3), <<SP>>, 2)
    IN  IF Len(parts) < 2 THEN raise(st, "IndexError")
        ELSE IF parts[2] # a THEN unknown(st, line)
        ELSE IF potential_matches(parts[1], cat) = <<>> THEN unknown(st, line)
        ELSE LET package == desired_package(parts[1], cat)
                 mesg == IF package # parts[1]
                         THEN From(parts[1], Len(package) + 1)
                         ELSE <<>>
             IN  IF Len(parts) < 3 THEN raise(st, "IndexError")
                 ELSE IF parts[3] = <<>>
                      THEN deliver(st, package, mesg, EmptyDict, 0)
                 ELSE LET s == parse_arguments(parts[3], st.multi_liners)
                          st1 == [st EXCEPT !.multi_liners = s.multi_liners]
                      IN  IF parser_weird(s) THEN unknown(st1, line)
                          ELSE IF s.multi_liners # <<>>
                          THEN IF DATA_TAG_KEY \notin DOMAIN s.parameters
                               THEN unknown(st1, line)
                               ELSE [st1 EXCEPT
                                       !.data_tag = s.parameters[DATA_TAG_KEY],
                                       !.current_req =
                                           [set |-> TRUE, package |-> package,
                                            message |-> mesg,
                                            parameters |-> s.parameters,
                                            id |-> st.next_id],
                                       !.next_id = @ + 1]
                          ELSE deliver(st1, package, mesg, s.parameters, 0)

\* one iteration of "for line in lines"
process_line(st, line, a, cat) ==
    IF Upto(line, 3) # MCP_PREFIX THEN unknown(st, line)
    ELSE IF st.multi_liners # <<>> THEN multiline_block(st, line)
    ELSE header(st, line, a, cat)

\* the for loop; an exception ends it
RECURSIVE for_lines(_, _, _, _)
for_lines(st, ls, a, cat) ==
    IF ls = <<>> \/ st.err # "" THEN st
    ELSE for_lines(process_line(st, Head(ls), a, cat), Tail(ls), a, cat)

\* one iteration of the "while multi_liners:" loop, for the readline result r
tail_block(st, r) ==
    IF r.kind = "closed" THEN raise(st, "TypeError")
    ELSE IF Upto(r.line, 3) # MCP_PREFIX THEN st
    ELSE IF Len(r.line) < 4 THEN raise(st, "IndexError")
    ELSE IF r.line[4] = "*" THEN continuation(st, r.line)
    ELSE IF r.line[4] = ":" THEN terminator(st)
    ELSE st

(***************************************************************************)
(* The transport, at the granularity of lines: incoming is self.lines      *)
(* followed by what the socket holds, as the segments that split("\r\n")   *)
(* makes of it.  written is what write() has sent, one payload per call.   *)
(***************************************************************************)
RECURSIVE drop_blanks(_)
drop_blanks(q) == IF q # <<>> /\ Head(q) = <<>> THEN drop_blanks(Tail(q)) ELSE q

\* readline(timeout): the next non-blank line, "" on a timeout, None once the
\* peer has shut down
readline(q, closed) ==
    LET q2 == drop_blanks(q)
    IN  IF q2 # <<>> THEN [kind |-> "line", line |-> Head(q2), rest |-> Tail(q2)]
        ELSE IF closed THEN [kind |-> "closed", line |-> <<>>, rest |-> <<>>]
        ELSE [kind |-> "empty", line |-> <<>>, rest |-> <<>>]

\* the lines that the first loop of process collects
RECURSIVE read_lines(_)
read_lines(q) ==
    LET r == readline(q, FALSE)
    IN  IF r.kind = "line" THEN <<r.line>> \o read_lines(r.rest) ELSE <<>>

\* the segments readline makes of received text
buffer_lines(text) == split(text, CRLF, -1)

(***************************************************************************)
(* MCP.negotiate.                                                          *)
(***************************************************************************)
MCP_NEGOTIATE == <<"m", "c", "p", "-", "n", "e", "g", "o", "t", "i", "a", "t", "e">>

reverse(s) == [i \in 1..Len(s) |-> s[Len(s) + 1 - i]]

\* s.rsplit(sep, maxsplit)
rsplit(s, sep, maxsplit) ==
    LET r == split(reverse(s), reverse(sep), maxsplit)
    IN  [i \in 1..Len(r) |-> reverse(r[Len(r) + 1 - i])]

\* package in self.catalog
in_catalog(cat, name) == \E i \in 1..Len(cat) : cat[i].name = name

\* self.catalog[package]
catalog_entry(cat, name) == cat[CHOOSE i \in 1..Len(cat) : cat[i].name = name]

\* self.catalog[name] = (lo, hi)
catalog_put(cat, name, lo, hi) ==
    IF in_catalog(cat, name)
    THEN [i \in 1..Len(cat) |->
            IF cat[i].name = name THEN [name |-> name, min |-> lo, max |-> hi] ELSE cat[i]]
    ELSE Append(cat, [name |-> name, min |-> lo, max |-> hi])

negotiate_can(a, package, min_version, max_version) ==
    <<"#", "$", "#", "m", "c", "p", "-", "n", "e", "g", "o", "t", "i", "a", "t", "e", "-", "c", "a", "n", " ">> \o a \o <<" ", "p", "a", "c", "k", "a", "g", "e", ":", " ", "\"">> \o package \o <<"\"", " ", "m", "i", "n", "-", "v", "e", "r", "s", "i", "o", "n", ":", " ", "\"">> \o min_version
    \o <<"\"", " ", "m", "a", "x", "-", "v", "e", "r", "s", "i", "o", "n", ":", " ", "\"">> \o max_version \o <<DQ>> \o CRLF

negotiate_end(a) == <<"#", "$", "#", "m", "c", "p", "-", "n", "e", "g", "o", "t", "i", "a", "t", "e", "-", "e", "n", "d", " ">> \o a \o CRLF

\* an entry with a version range is not checked against the catalog
package_missing_unversioned_only(versioned, package, cat) ==
    ~versioned /\ ~in_catalog(cat, package)

\* "if package not in self.catalog", in both branches of "if ':' in package"
package_missing(versioned, package, cat) == ~in_catalog(cat, package)

\* the loop over packages; r carries client_negotiated and the request text
RECURSIVE negotiate_loop(_, _, _, _)
negotiate_loop(r, packages, a, cat) ==
    IF packages = <<>>
    THEN [r EXCEPT !.request = @ \o negotiate_end(a)]
    ELSE LET entry == Head(packages)
             parts == rsplit(entry, <<":">>, 2)
             versioned == contains(entry, <<":">>)
             package == IF versioned THEN parts[1] ELSE entry
         IN  IF versioned /\ Len(parts) # 3 THEN [r EXCEPT !.err = "ValueError"]
             ELSE IF package_missing(versioned, package, cat)
             THEN [r EXCEPT !.err = "NotAvailable"]
             ELSE LET min_version == IF versioned THEN parts[2]
                                     ELSE catalog_entry(cat, package).min
                      max_version == IF versioned THEN parts[3]
                                     ELSE catalog_entry(cat, package).max
                  IN  negotiate_loop(
                        [r EXCEPT !.client_negotiated = @ \cup {package},
                                  !.request = @ \o negotiate_can(a, package,
                                                                 min_version, max_version)],
                        Tail(packages), a, cat)

\* negotiate(packages): err, the negotiated set, the caller's list and the
\* request, which is written only when err = ""
negotiate(packages, negotiated, a, cat) ==
    IF negotiated # {}
    THEN [err |-> "NegotiateOnce", client_negotiated |-> negotiated,
          packages |-> packages, request |-> <<>>]
    ELSE LET added == in_catalog(cat, MCP_NEGOTIATE)
             pk == IF added THEN Append(packages, MCP_NEGOTIATE) ELSE packages
             start == [err |-> "", packages |-> pk, request |-> <<>>,
                       client_negotiated |-> IF added THEN {MCP_NEGOTIATE} ELSE {}]
         IN  negotiate_loop(start, pk, a, cat)

(***************************************************************************)
(* MCP.version_compare, and the two regular expressions of the handshake.  *)
(***************************************************************************)
DIGITS == <<"0", "1", "2", "3", "4", "5", "6", "7", "8", "9">>

isdigit(x) == \E i \in 1..10 : DIGITS[i] = x

digit(x) == (CHOOSE i \in 1..10 : DIGITS[i] = x) - 1

\* the value of a string of digits
RECURSIVE number(_)
number(s) == IF s = <<>> THEN 0 ELSE 10 * number(SubSeq(s, 1, Len(s) - 1)) + digit(s[Len(s)])

alldigits(s) == \A i \in 1..Len(s) : isdigit(s[i])

\* int(s) does not raise
int_ok(s) == s # <<>> /\ alldigits(s)

\* float(s) does not raise: digits with at most one point, and a digit
float_ok(s) ==
    LET parts == split(s, <<".">>, 1)
    IN  /\ \A i \in 1..Len(parts) : alldigits(parts[i])
        /\ \E i \in 1..Len(parts) : parts[i] # <<>>

\* s followed by n zeros
RECURSIVE zeros(_, _)
zeros(s, n) == IF n <= 0 THEN s ELSE zeros(Append(s, "0"), n - 1)

\* float(a) compared with float(b): -1, 0 or 1
float_compare(a, b) ==
    LET pa == split(a, <<".">>, 1)
        pb == split(b, <<".">>, 1)
        fa == IF Len(pa) = 2 THEN pa[2] ELSE <<>>
        fb == IF Len(pb) = 2 THEN pb[2] ELSE <<>>
        n == IF Len(fa) > Len(fb) THEN Len(fa) ELSE Len(fb)
        xa == number(zeros(pa[1] \o fa, n - Len(fa)))
        xb == number(zeros(pb[1] \o fb, n - Len(fb)))
    IN  IF xa > xb THEN 1 ELSE IF xa < xb THEN -1 ELSE 0

\* version_compare(v1, v2): val is what it returns, err what it raises
version_compare(v1, v2) ==
    LET p1 == split(v1, <<".">>, 1)
        p2 == split(v2, <<".">>, 1)
    IN  IF Len(p1) # 2 \/ Len(p2) # 2 \/ ~int_ok(p1[1]) \/ ~int_ok(p2[1])
           \/ ~float_ok(p1[2]) \/ ~float_ok(p2[2])
        THEN [err |-> "ValueError", val |-> 0]
        ELSE IF number(p1[1]) > number(p2[1]) THEN [err |-> "", val |-> 1]
        ELSE IF number(p1[1]) < number(p2[1]) THEN [err |-> "", val |-> -1]
        ELSE [err |-> "", val |-> float_compare(p1[2], p2[2])]

PROTOCOL_VERSION == <<"2", ".", "1">>

\* only the lower end of the server's range is checked
protocol_supported_min_only(lo, hi) ==
    LET c1 == version_compare(lo, PROTOCOL_VERSION)
    IN  IF c1.err # "" THEN c1.err
        ELSE IF c1.val = 1 THEN "Unsupported"
        ELSE ""

\* the check of the server's range against PROTOCOL_VERSION: "" when it
\* passes, else what is raised
protocol_supported(lo, hi) ==
    LET c1 == version_compare(lo, PROTOCOL_VERSION)
        c2 == version_compare(PROTOCOL_VERSION, hi)
    IN  IF c1.err # "" THEN c1.err
        ELSE IF c1.val = 1 THEN "Unsupported"
        ELSE IF c2.err # "" THEN c2.err
        ELSE IF c2.val = 1 THEN "Unsupported"
        ELSE ""

\* the longest prefix of s made of digits and points: ([\d.]+)
RECURSIVE version_run(_)
version_run(s) ==
    IF s # <<>> /\ (isdigit(Head(s)) \/ Head(s) = ".")
    THEN <<Head(s)>> \o version_run(Tail(s))
    ELSE <<>>

HEADER_RE_VERSION == <<"#", "$", "#", "m", "c", "p", " ", "v", "e", "r", "s", "i", "o", "n", ":", " ", "\"">>
HEADER_RE_TO == <<"\"", " ", "t", "o", ":", " ", "\"">>

\* re.match(r'#\$#mcp version: "([\d.]+)" to: "([\d.]+)"', line)
match_header(line) ==
    LET r1 == From(line, Len(HEADER_RE_VERSION))
        g1 == version_run(r1)
        r2 == From(r1, Len(g1) + Len(HEADER_RE_TO))
        g2 == version_run(r2)
    IN  IF /\ startswith(line, HEADER_RE_VERSION)
           /\ g1 # <<>>
           /\ startswith(From(r1, Len(g1)), HEADER_RE_TO)
           /\ g2 # <<>>
           /\ startswith(From(r2, Len(g2)), <<DQ>>)
        THEN [ok |-> TRUE, lo |-> g1, hi |-> g2]
        ELSE [ok |-> FALSE, lo |-> <<>>, hi |-> <<>>]

NEGO_RE_CAN == <<"#", "$", "#", "m", "c", "p", "-", "n", "e", "g", "o", "t", "i", "a", "t", "e", "-", "c", "a", "n", " ">>
NEGO_RE_PACKAGE == <<" ", "p", "a", "c", "k", "a", "g", "e", ":", " ", "\"">>
NEGO_RE_MIN == <<"\"", " ", "m", "i", "n", "-", "v", "e", "r", "s", "i", "o", "n", ":", " ", "\"">>
NEGO_RE_MAX == <<"\"", " ", "m", "a", "x", "-", "v", "e", "r", "s", "i", "o", "n", ":", " ", "\"">>

\* the positions of s where sub occurs
occurrences(s, sub) ==
    {i \in 1..(Len(s) - Len(sub) + 1) : SubSeq(s, i, i + Len(sub) - 1) = sub}

Max(S) == CHOOSE x \in S : \A y \in S : y <= x

\* nego_re.match(line): the three groups are greedy (.+)
match_can(line, a) ==
    LET prefix == NEGO_RE_CAN \o a \o NEGO_RE_PACKAGE
        rest == From(line, Len(prefix))
        ends(j) == {k \in occurrences(rest, <<DQ>>) : k > j + Len(NEGO_RE_MAX)}
        maxs(i) == {j \in occurrences(rest, NEGO_RE_MAX) :
                        j > i + Len(NEGO_RE_MIN) /\ ends(j) # {}}
        mins == {i \in occurrences(rest, NEGO_RE_MIN) : i > 1 /\ maxs(i) # {}}
    IN  IF startswith(line, prefix) /\ mins # {}
        THEN LET i == Max(mins)
                 j == Max(maxs(i))
                 k == Max(ends(j))
             IN  [ok |-> TRUE, package |-> SubSeq(rest, 1, i - 1),
                  min |-> SubSeq(rest, i + Len(NEGO_RE_MIN), j - 1),
                  max |-> SubSeq(rest, j + Len(NEGO_RE_MAX), k - 1)]
        ELSE [ok |-> FALSE, package |-> <<>>, min |-> <<>>, max |-> <<>>]

\* '#$#mcp authentication-key: "%s" version: "%s" to: "%s"\r\n'
authentication_key(a) ==
    <<"#", "$", "#", "m", "c", "p", " ", "a", "u", "t", "h", "e", "n", "t", "i", "c", "a", "t", "i", "o", "n", "-", "k", "e", "y", ":", " ", "\"">>
    \o a \o <<"\"", " ", "v", "e", "r", "s", "i", "o", "n", ":", " ", "\"">> \o PROTOCOL_VERSION
    \o <<"\"", " ", "t", "o", ":", " ", "\"">> \o PROTOCOL_VERSION \o <<DQ>> \o CRLF

(***************************************************************************)
(* MCP.call.  arguments is the dict in insertion order, a sequence of      *)
(* [key, val] with val a Str or a List.                                    *)
(***************************************************************************)
\* the "for key, val in arguments.items()" loop of the header
RECURSIVE call_header_args(_)
call_header_args(arguments) ==
    IF arguments = <<>> THEN <<>>
    ELSE LET arg == Head(arguments)
         IN  (IF arg.val.list
              THEN <<SP>> \o arg.key \o <<"*", ":", " ", "\"", "\"">>
              ELSE <<SP>> \o arg.key \o <<":", SP, DQ>> \o escape(arg.val.str) \o <<DQ>>)
             \o call_header_args(Tail(arguments))

need_data_tag(arguments) == \E i \in 1..Len(arguments) : arguments[i].val.list

\* the "for line in val" loop
RECURSIVE call_list_lines(_, _, _)
call_list_lines(tag, key, items) ==
    IF items = <<>> THEN <<>>
    ELSE MCP_PREFIX \o <<"*", SP>> \o tag \o <<SP>> \o key \o <<":", SP>> \o Head(items) \o CRLF
         \o call_list_lines(tag, key, Tail(items))

\* the second "for key, val in arguments.items()" loop
RECURSIVE call_multiline(_, _)
call_multiline(tag, arguments) ==
    IF arguments = <<>> THEN <<>>
    ELSE LET arg == Head(arguments)
         IN  (IF arg.val.list
              THEN call_list_lines(tag, arg.key, arg.val.items)
                   \o MCP_PREFIX \o <<":", SP>> \o tag \o CRLF
              ELSE <<>>)
             \o call_multiline(tag, Tail(arguments))

\* buf.getvalue(): what call writes after the package check
call_text(package, message, arguments, a, tag) ==
    MCP_PREFIX \o package
    \o (IF message # <<>> THEN <<"-">> \o message ELSE <<>>)
    \o <<SP>> \o a
    \o call_header_args(arguments)
    \o (IF need_data_tag(arguments) THEN <<" ", "_", "d", "a", "t", "a", "-", "t", "a", "g", ":", " ", "\"">> \o tag \o <<DQ>> ELSE <<>>)
    \o CRLF
    \o (IF need_data_tag(arguments) THEN call_multiline(tag, arguments) ELSE <<>>)

\* the package check of call: err, the negotiated set and the negotiate
\* request it wrote (empty when none)
call_package_name(package, min_version, max_version) ==
    IF min_version # <<>> /\ max_version # <<>>
    THEN package \o <<":">> \o min_version \o <<":">> \o max_version
    ELSE package

\* a package that was not negotiated is let through
call_check_any_package(package, min_version, max_version, negotiated, a, cat) ==
    IF negotiated = {}
    THEN IF (min_version # <<>>) # (max_version # <<>>)
         THEN [err |-> "BothVersions", client_negotiated |-> negotiated,
               packages |-> <<>>, request |-> <<>>]
         ELSE negotiate(<<call_package_name(package, min_version, max_version)>>,
                        negotiated, a, cat)
    ELSE [err |-> "", client_negotiated |-> negotiated, packages |-> <<>>,
          request |-> <<>>]

call_check(package, min_version, max_version, negotiated, a, cat) ==
    IF negotiated = {}
    THEN IF (min_version # <<>>) # (max_version # <<>>)
         THEN [err |-> "BothVersions", client_negotiated |-> negotiated,
               packages |-> <<>>, request |-> <<>>]
         ELSE negotiate(<<call_package_name(package, min_version, max_version)>>,
                        negotiated, a, cat)
    ELSE IF package \notin negotiated
    THEN [err |-> "NotNegotiated", client_negotiated |-> negotiated,
          packages |-> <<>>, request |-> <<>>]
    ELSE [err |-> "", client_negotiated |-> negotiated, packages |-> <<>>,
          request |-> <<>>]

(***************************************************************************)
(* The values the model draws its inputs from.                             *)
(***************************************************************************)
\* outcomes of generate_tag: str(random.randint(100000, 1000000))
Tags == {<<"1", "0", "0", "0", "0", "0">>, <<"6", "5", "4", "3", "2", "1">>}

PKG_A == <<"a">>
PKG_AB == <<"a", "-", "b">>
PKG_C == <<"c">>
V10 == <<"1", ".", "0">>
V20 == <<"2", ".", "0">>

\* catalogs the handshake may have collected
Catalogs ==
    {<<[name |-> PKG_A, min |-> V10, max |-> V10], [name |-> PKG_AB, min |-> V10, max |-> V20]>>,
     <<[name |-> PKG_AB, min |-> V10, max |-> V20], [name |-> PKG_A, min |-> V10, max |-> V10]>>,
     <<[name |-> MCP_NEGOTIATE, min |-> V10, max |-> V20],
       [name |-> PKG_AB, min |-> V10, max |-> V20]>>}

\* package lists given to negotiate
PackageLists == {<<PKG_AB>>, <<PKG_A, PKG_AB>>, <<PKG_AB \o <<":">> \o V10 \o <<":">> \o V20>>,
                 <<PKG_C>>}

CallPackages == {PKG_AB, PKG_C}
CallMessages == {<<>>, <<"m">>}
CallVersions == {<<>>, V10}

KEY_K == <<"k">>
KEY_T == <<"t">>
KEY_U == <<"u">>

\* arguments given to call
CallArguments ==
    {<<>>,
     <<[key |-> KEY_K, val |-> Str(<<"v">>)]>>,
     <<[key |-> KEY_K, val |-> Str(<<"q", DQ, BS>>)]>>,
     <<[key |-> KEY_T, val |-> List(<<>>)]>>,
     <<[key |-> KEY_K, val |-> Str(<<"v">>)], [key |-> KEY_T, val |-> List(<<<<"x">>, <<"y", DQ>>>>)]>>,
     <<[key |-> KEY_T, val |-> List(<<<<"x">>>>)], [key |-> KEY_U, val |-> List(<<<<"y">>>>)]>>}

NoCall == [made |-> FALSE, package |-> <<>>, message |-> <<>>, arguments |-> <<>>,
           min_version |-> <<>>, max_version |-> <<>>, err |-> "", text |-> <<>>]

\* no negotiate yet; packages is the list given to negotiate and
\* packages_after the same list when negotiate is over
NoNegotiate == [made |-> FALSE, packages |-> <<>>, packages_after |-> <<>>, err |-> ""]

\* the locals of __init__ and _negotiate before the first read
handshake_start == [tries |-> 0, mcp_proto |-> <<>>, read |-> <<>>, expired |-> FALSE,
                    err |-> ""]

\* no operation of FuzzballBase has returned yet
NoResult == [op |-> "", kind |-> "", value |-> <<>>, err |-> ""]

\* FuzzballBase after __init__ and connect(): socket, buffer (None is the
\* empty text: readline makes a StringIO of it before it writes) and lines
\* are the fields of the object; arrived is what the socket holds and recv
\* has not taken; stream is all the server has sent and returned the lines
\* that readline has given to the caller (only_readline: nothing but
\* readline was called); pc is where readline is, caller who called it, and
\* result is how the last operation ended
base_start ==
    [socket |-> "open", buffer |-> <<>>, lines |-> <<>>, arrived |-> <<>>,
     stream |-> <<>>, returned |-> <<>>, only_readline |-> TRUE, pc |-> "idle",
     caller |-> "", result |-> NoResult]

(***************************************************************************)
(* The session after construction, and its operations.                     *)
(***************************************************************************)
Init ==
    /\ auth \in Tags
    /\ catalog \in Catalogs
    /\ client_negotiated = {}
    /\ written = <<>>
    /\ inflight = <<>>
    /\ incoming = <<>>
    /\ peer_closed = FALSE
    /\ sent = 0
    /\ pc = "idle"
    /\ lines = <<>>
    /\ idx = 0
    /\ tail_lines = <<>>
    /\ locals = process_start
    /\ last_call = NoCall
    /\ last_negotiate = NoNegotiate
    /\ handshake = handshake_start
    /\ base = base_start
    /\ version_in = <<>>
    /\ version_out = <<>>
    /\ text_in = <<>>
    /\ escaped = <<>>
    /\ unescaped = <<>>

pure_vars == <<text_in, escaped, unescaped, version_in, version_out>>
session_vars == <<auth, catalog, client_negotiated, written, last_call, last_negotiate>>
handshake_vars == <<handshake>>
base_vars == <<base>>
transport_vars == <<inflight, incoming, peer_closed, sent>>
process_vars == <<pc, lines, idx, tail_lines, locals>>

\* what write() raises: self.socket is None after close()
write_error == IF base.socket = "None" THEN "AttributeError" ELSE ""

\* how an operation ends whose checks ended with err and that then writes
after_write(err) == IF err # "" THEN err ELSE write_error

\* negotiate(packages)
Negotiate(packages) ==
    /\ pc = "idle"
    /\ LET r == negotiate(packages, client_negotiated, auth, catalog)
           e == after_write(r.err)
       IN  /\ client_negotiated' = r.client_negotiated
           /\ written' = IF e = "" THEN Append(written, r.request) ELSE written
           /\ last_negotiate' = [made |-> TRUE, packages |-> packages,
                                 packages_after |-> r.packages, err |-> e]
    /\ Len(written') <= MaxWritten
    /\ UNCHANGED <<auth, catalog, last_call, transport_vars, process_vars, pure_vars, handshake_vars,
                   base_vars>>

\* call(package, message, arguments, min_version, max_version); tag is what
\* generate_tag returns if the call needs a data tag
Call(package, message, arguments, min_version, max_version, tag) ==
    /\ pc = "idle"
    /\ LET r == call_check(package, min_version, max_version, client_negotiated,
                           auth, catalog)
           text == call_text(package, message, arguments, auth, tag)
           e == after_write(r.err)
       IN  /\ client_negotiated' = r.client_negotiated
           /\ written' = IF e # "" THEN written
                         ELSE IF r.request # <<>> THEN written \o <<r.request, text>>
                         ELSE Append(written, text)
           /\ last_call' = IF e # ""
                            THEN [NoCall EXCEPT !.made = TRUE, !.err = e,
                                                !.package = package,
                                                !.min_version = min_version,
                                                !.max_version = max_version]
                            ELSE [made |-> TRUE, package |-> package, message |-> message,
                                  arguments |-> arguments, min_version |-> min_version,
                                  max_version |-> max_version, err |-> "", text |-> text]
           /\ last_negotiate' =
                IF client_negotiated = {} /\ r.err # "BothVersions"
                THEN [made |-> TRUE, err |-> e,
                      packages |-> <<call_package_name(package, min_version, max_version)>>,
                      packages_after |-> r.packages]
                ELSE last_negotiate
    /\ Len(written') <= MaxWritten
    /\ UNCHANGED <<auth, catalog, transport_vars, process_vars, pure_vars, handshake_vars, base_vars>>

\* the server sends back the payload it received last
ServerEcho ==
    /\ pc = "idle"
    /\ written # <<>>
    /\ inflight = <<>>
    /\ incoming = <<>>
    /\ inflight' = buffer_lines(written[Len(written)])
    /\ UNCHANGED <<session_vars, incoming, peer_closed, sent, process_vars, pure_vars, handshake_vars,
                   base_vars>>

\* the next line in flight arrives
Deliver ==
    /\ pc \in {"idle", "tail"}
    /\ base.socket = "open"
    /\ inflight # <<>>
    /\ incoming' = Append(incoming, Head(inflight))
    /\ inflight' = Tail(inflight)
    /\ UNCHANGED <<session_vars, peer_closed, sent, process_vars, pure_vars, handshake_vars, base_vars>>

\* the server sends a line of its own, and it arrives
ServerSend(line) ==
    /\ pc \in {"idle", "tail"}
    /\ base.socket = "open"
    /\ ~peer_closed
    /\ sent < MaxSent
    /\ sent' = sent + 1
    /\ incoming' = Append(incoming, line)
    /\ UNCHANGED <<session_vars, inflight, peer_closed, process_vars, pure_vars, handshake_vars, base_vars>>

\* the server shuts the connection down
ServerClose ==
    /\ pc \in {"idle", "tail"}
    /\ ~peer_closed
    /\ peer_closed' = TRUE
    /\ UNCHANGED <<session_vars, inflight, incoming, sent, process_vars, pure_vars, handshake_vars, base_vars>>

\* process(): its first loop, which collects the lines that are there
Process ==
    /\ pc = "idle"
    /\ incoming # <<>> \/ written # <<>> \/ sent > 0
    /\ lines' = read_lines(incoming)
    /\ idx' = 0
    /\ incoming' = <<>>
    /\ tail_lines' = <<>>
    /\ locals' = process_start
    /\ pc' = IF lines' = <<>> THEN "returned" ELSE "loop"
    /\ UNCHANGED <<session_vars, inflight, peer_closed, sent, pure_vars, handshake_vars, base_vars>>

\* where process goes after a line
after_line(st, more) ==
    IF st.err # "" THEN "raised"
    ELSE IF more THEN "loop"
    ELSE IF st.multi_liners # <<>> THEN "tail"
    ELSE "returned"

\* process(): one iteration of "for line in lines"
ProcessLine ==
    /\ pc = "loop"
    /\ LET st == process_line(locals, lines[idx + 1], auth, catalog)
       IN  /\ locals' = st
           /\ pc' = after_line(st, idx + 1 < Len(lines))
    /\ idx' = idx + 1
    /\ UNCHANGED <<session_vars, transport_vars, lines, tail_lines, pure_vars, handshake_vars, base_vars>>

\* process(): one iteration of "while multi_liners:"
ProcessTail ==
    /\ pc = "tail"
    /\ LET r == readline(incoming, peer_closed /\ base.socket = "open")
           st == tail_block(locals, r)
       IN  /\ incoming' = r.rest
           /\ tail_lines' = IF r.kind = "line" THEN Append(tail_lines, r.line) ELSE tail_lines
           /\ locals' = st
           /\ pc' = after_line(st, FALSE)
    /\ UNCHANGED <<session_vars, inflight, peer_closed, sent, lines, idx, pure_vars, handshake_vars,
                   base_vars>>

\* process() has returned or raised: the caller goes on
ProcessReturn ==
    /\ pc \in {"returned", "raised"}
    /\ pc' = "idle"
    /\ lines' = <<>>
    /\ idx' = 0
    /\ tail_lines' = <<>>
    /\ locals' = process_start
    /\ UNCHANGED <<session_vars, transport_vars, pure_vars, handshake_vars, base_vars>>

\* The client negotiates, calls and polls process; the server echoes what
\* it receives.
Next ==
    \/ \E packages \in PackageLists : Negotiate(packages)
    \/ \E package \in CallPackages, message \in CallMessages, arguments \in CallArguments,
          tag \in Tags :
            Call(package, message, arguments, <<>>, <<>>, tag)
    \/ ServerEcho
    \/ Deliver
    \/ Process
    \/ ProcessLine
    \/ ProcessTail
    \/ ProcessReturn

Spec == Init /\ [][Next]_vars

(***************************************************************************)
(* SpecInbound: the client negotiates and polls process while the server   *)
(* sends lines of its own.                                                 *)
(***************************************************************************)
\* a tag that is not the session's
other_tag(a) == CHOOSE t \in Tags : t # a

TAG_AB_M == <<"a", "-", "b", "-", "m">>
ARGS_STRING == <<" ", "k", ":", " ", "\"", "v", "\"">>
ARGS_LIST_07 == <<" ", "t", "*", ":", " ", "\"", "\"", " ", "_", "d", "a", "t", "a", "-", "t", "a", "g", ":", " ", "\"", "0", "7", "\"">>
ARGS_LIST_7 == <<" ", "t", "*", ":", " ", "\"", "\"", " ", "_", "d", "a", "t", "a", "-", "t", "a", "g", ":", " ", "7">>

\* "#$#" tag " " auth args
header_line(tag, a, args) == MCP_PREFIX \o tag \o <<SP>> \o a \o args

ServerLines(a) ==
    {header_line(TAG_AB_M, a, ARGS_STRING),
     header_line(TAG_AB_M, a, ARGS_LIST_07),
     header_line(TAG_AB_M, a, ARGS_LIST_7),
     header_line(TAG_AB_M, other_tag(a), ARGS_STRING),
     header_line(PKG_AB, a, ARGS_STRING),
     header_line(PKG_C, a, ARGS_STRING),
     MCP_PREFIX \o TAG_AB_M,
     MCP_PREFIX \o TAG_AB_M \o <<SP>> \o a,
     <<"#", "$", "#", "*", " ", "0", "7", " ", "t", ":", " ", "x">>,
     <<"#", "$", "#", "*", " ", "7", " ", "t", ":", " ", "x">>,
     <<"#", "$", "#", "*", " ", "0", "7">>,
     <<"#", "$", "#", ":", " ", "0", "7">>,
     <<"#", "$", "#", ":", " ", "7">>,
     <<"#", "$", "#", ":", " ", "9">>,
     <<"h", "e", "l", "l", "o">>}

\* package lists given to negotiate while the server sends
InboundPackageLists == {<<PKG_AB>>, <<PKG_C>>}

NextInbound ==
    \/ \E packages \in InboundPackageLists : Negotiate(packages)
    \/ \E line \in ServerLines(auth) : ServerSend(line)
    \/ ServerClose
    \/ Process
    \/ ProcessLine
    \/ ProcessTail
    \/ ProcessReturn

SpecInbound == Init /\ [][NextInbound]_vars

(***************************************************************************)
(* SpecEscape: escape, then unescape, of every text up to MaxStrLen over   *)
(* a quote, a backslash and an ordinary character.                         *)
(***************************************************************************)
EscapeAlphabet == {DQ, BS, "a"}

Texts == UNION {[1..n -> EscapeAlphabet] : n \in 0..MaxStrLen}

InitEscape ==
    /\ text_in \in Texts
    /\ escaped = <<>>
    /\ unescaped = <<>>
    /\ pc = "escape"
    /\ auth \in Tags
    /\ catalog = <<>>
    /\ client_negotiated = {}
    /\ written = <<>>
    /\ inflight = <<>>
    /\ incoming = <<>>
    /\ peer_closed = FALSE
    /\ sent = 0
    /\ lines = <<>>
    /\ idx = 0
    /\ tail_lines = <<>>
    /\ locals = process_start
    /\ last_call = NoCall
    /\ last_negotiate = NoNegotiate
    /\ handshake = handshake_start
    /\ base = base_start
    /\ version_in = <<>>
    /\ version_out = <<>>

Escape ==
    /\ pc = "escape"
    /\ escaped' = escape(text_in)
    /\ pc' = "unescape"
    /\ UNCHANGED <<session_vars, transport_vars, lines, idx, tail_lines, locals, text_in,
                   unescaped, version_in, version_out, handshake_vars, base_vars>>

Unescape ==
    /\ pc = "unescape"
    /\ unescaped' = unescape(escaped)
    /\ pc' = "done"
    /\ UNCHANGED <<session_vars, transport_vars, lines, idx, tail_lines, locals, text_in,
                   escaped, version_in, version_out, handshake_vars, base_vars>>

NextEscape == Escape \/ Unescape

SpecEscape == InitEscape /\ [][NextEscape]_vars

(***************************************************************************)
(* SpecHandshake: the constructor, from the wait for the server's header   *)
(* to the end of the catalog, against a server that sends what it likes.   *)
(***************************************************************************)
\* a line without its line end
chomp(text) == SubSeq(text, 1, Len(text) - 2)

\* '#$#mcp version: "lo" to: "hi"'
advertisement(lo, hi) == HEADER_RE_VERSION \o lo \o HEADER_RE_TO \o hi \o <<DQ>>

V21 == <<"2", ".", "1">>
V22 == <<"2", ".", "2">>
V30 == <<"3", ".", "0">>
BANNER == <<"W", "e", "l", "c", "o", "m", "e">>

\* what the server may send before it has the key, and after
GreetingLines(a) ==
    {advertisement(V10, V21), advertisement(V21, V30), advertisement(V10, V20),
     advertisement(V22, V30), BANNER}
    \cup (IF a = <<>> THEN {}
          ELSE {chomp(negotiate_can(a, PKG_AB, V10, V20)),
                chomp(negotiate_can(a, PKG_A, V10, V10)),
                chomp(negotiate_can(other_tag(a), PKG_C, V10, V10)),
                chomp(negotiate_end(a)),
                chomp(negotiate_end(other_tag(a)))})

InitHandshake ==
    /\ pc = "header"
    /\ handshake = handshake_start
    /\ base = base_start
    /\ auth = <<>>
    /\ catalog = <<>>
    /\ client_negotiated = {}
    /\ written = <<>>
    /\ inflight = <<>>
    /\ incoming = <<>>
    /\ peer_closed = FALSE
    /\ sent = 0
    /\ lines = <<>>
    /\ idx = 0
    /\ tail_lines = <<>>
    /\ locals = process_start
    /\ last_call = NoCall
    /\ last_negotiate = NoNegotiate
    /\ version_in = <<>>
    /\ version_out = <<>>
    /\ text_in = <<>>
    /\ escaped = <<>>
    /\ unescaped = <<>>

\* the server sends a line during the handshake, and it arrives
ServerGreets(line) ==
    /\ pc \in {"header", "clear", "catalog"}
    /\ ~peer_closed
    /\ sent < MaxGreeting
    /\ sent' = sent + 1
    /\ incoming' = Append(incoming, line)
    /\ UNCHANGED <<session_vars, inflight, peer_closed, process_vars, pure_vars,
                   handshake_vars, base_vars>>

\* the server shuts the connection down during the handshake
ServerHangsUp ==
    /\ pc \in {"header", "clear", "catalog"}
    /\ ~peer_closed
    /\ peer_closed' = TRUE
    /\ UNCHANGED <<session_vars, inflight, incoming, sent, process_vars, pure_vars,
                   handshake_vars, base_vars>>

\* what __init__ does with mcp_proto once its first loop is over: "" when
\* it goes on, else what it raises
header_check(tries, mcp_proto) ==
    LET res == match_header(mcp_proto)
    IN  IF tries >= 3 THEN "NoResponse"
        ELSE IF ~res.ok THEN "HeaderNotFound"
        ELSE protocol_supported(res.lo, res.hi)

\* __init__: one readline(10) of the wait for the header and, when the
\* loop is over, the checks up to generate_tag
HeaderRead(tag) ==
    /\ pc = "header"
    /\ LET r == readline(incoming, peer_closed)
           proto == strip(r.line)
           n == handshake.tries + 1
           over == proto # <<>> \/ n >= 3
           e == IF r.kind = "closed" THEN "AttributeError"
                ELSE IF over THEN header_check(n, proto)
                ELSE ""
       IN  /\ incoming' = r.rest
           /\ handshake' = IF r.kind = "closed" THEN [handshake EXCEPT !.err = e]
                            ELSE [handshake EXCEPT !.tries = n, !.mcp_proto = proto,
                                                   !.err = e]
           /\ pc' = IF e # "" THEN "failed" ELSE IF over THEN "clear" ELSE "header"
           /\ auth' = IF e = "" /\ over THEN tag ELSE auth
    /\ UNCHANGED <<catalog, client_negotiated, written, last_call, last_negotiate,
                   inflight, peer_closed, sent, lines, idx, tail_lines, locals, pure_vars,
                   base_vars>>

\* __init__: one readline of "clear buffer" and, when nothing is left,
\* the write of the key at the start of _negotiate
ClearRead ==
    /\ pc = "clear"
    /\ LET r == readline(incoming, peer_closed)
       IN  /\ incoming' = r.rest
           /\ written' = IF r.kind = "line" THEN written
                         ELSE Append(written, authentication_key(auth))
           /\ pc' = IF r.kind = "line" THEN "clear" ELSE "catalog"
    /\ UNCHANGED <<auth, catalog, client_negotiated, last_call, last_negotiate, inflight,
                   peer_closed, sent, lines, idx, tail_lines, locals, pure_vars,
                   handshake_vars, base_vars>>

\* _negotiate: one turn of "while time.time() < end"
CatalogRead ==
    /\ pc = "catalog"
    /\ LET r == readline(incoming, peer_closed)
           m == match_can(r.line, auth)
           is_end == startswith(r.line, chomp(negotiate_end(auth)))
       IN  IF handshake.expired
           THEN /\ handshake' = [handshake EXCEPT !.err = "Timeout"]
                /\ pc' = "failed"
                /\ UNCHANGED <<incoming, catalog>>
           ELSE IF r.kind = "closed"
           THEN /\ handshake' = [handshake EXCEPT !.err = "AttributeError"]
                /\ pc' = "failed"
                /\ UNCHANGED <<incoming, catalog>>
           ELSE /\ incoming' = r.rest
                /\ handshake' = IF r.kind = "line"
                                 THEN [handshake EXCEPT !.read = Append(@, r.line)]
                                 ELSE handshake
                /\ pc' = IF is_end THEN "catalog_end" ELSE "catalog"
                /\ catalog' = IF ~is_end /\ m.ok
                               THEN catalog_put(catalog, m.package, m.min, m.max)
                               ELSE catalog
    /\ UNCHANGED <<auth, client_negotiated, written, last_call, last_negotiate, inflight,
                   peer_closed, sent, lines, idx, tail_lines, locals, pure_vars, base_vars>>

\* _negotiate: "if time.time() >= end" after the loop was left by break
CatalogEnd ==
    /\ pc = "catalog_end"
    /\ handshake' = IF handshake.expired THEN [handshake EXCEPT !.err = "Timeout"]
                     ELSE handshake
    /\ pc' = IF handshake.expired THEN "failed" ELSE "ready"
    /\ UNCHANGED <<session_vars, transport_vars, lines, idx, tail_lines, locals, pure_vars, base_vars>>

\* the five seconds of _negotiate run out
Deadline ==
    /\ pc \in {"catalog", "catalog_end"}
    /\ ~handshake.expired
    /\ handshake' = [handshake EXCEPT !.expired = TRUE]
    /\ UNCHANGED <<session_vars, transport_vars, process_vars, pure_vars, base_vars>>

NextHandshake ==
    \/ \E line \in GreetingLines(auth) : ServerGreets(line)
    \/ ServerHangsUp
    \/ \E tag \in Tags : HeaderRead(tag)
    \/ ClearRead
    \/ CatalogRead
    \/ CatalogEnd
    \/ Deadline

SpecHandshake == InitHandshake /\ [][NextHandshake]_vars

(***************************************************************************)
(* SpecVersion: version_compare on every three of a few versions.          *)
(***************************************************************************)
Versions ==
    {V10, V20, V21, <<"1", ".", "0", "0">>, <<"1", ".", "1", "0">>, <<"1", ".", "9">>,
     <<"1", ".", "2", ".", "3">>, <<"1", ".", "2", ".", "3", ".", "4">>,
     <<"2", ".", "1", ".", "1", "0">>, <<"2", ".", "1", ".", "5">>}

InitVersion ==
    /\ version_in \in Versions \X Versions \X Versions
    /\ version_out = <<>>
    /\ pc = "compare"
    /\ handshake = handshake_start
    /\ base = base_start
    /\ auth \in Tags
    /\ catalog = <<>>
    /\ client_negotiated = {}
    /\ written = <<>>
    /\ inflight = <<>>
    /\ incoming = <<>>
    /\ peer_closed = FALSE
    /\ sent = 0
    /\ lines = <<>>
    /\ idx = 0
    /\ tail_lines = <<>>
    /\ locals = process_start
    /\ last_call = NoCall
    /\ last_negotiate = NoNegotiate
    /\ text_in = <<>>
    /\ escaped = <<>>
    /\ unescaped = <<>>

\* version_compare on each pair of the three
Compare ==
    /\ pc = "compare"
    /\ version_out' = [i \in 1..3 |-> [j \in 1..3 |->
                            version_compare(version_in[i], version_in[j])]]
    /\ pc' = "compared"
    /\ UNCHANGED <<session_vars, transport_vars, lines, idx, tail_lines, locals,
                   text_in, escaped, unescaped, version_in, handshake_vars, base_vars>>

NextVersion == Compare

SpecVersion == InitVersion /\ [][NextVersion]_vars

(***************************************************************************)
(* SpecSession: negotiate and call in any order, with and without version  *)
(* ranges, on packages the catalog has and on packages it has not.         *)
(***************************************************************************)
PKG_C_RANGE == PKG_C \o <<":">> \o V10 \o <<":">> \o V20
PKG_A_RANGE == PKG_A \o <<":">> \o V20 \o <<":">> \o V20

SessionPackageLists ==
    PackageLists \cup {<<>>, <<PKG_C_RANGE>>, <<PKG_A_RANGE>>, <<PKG_AB, PKG_C>>}

SessionCallPackages == {PKG_A, PKG_AB, PKG_C}

SessionArguments == {<<>>, <<[key |-> KEY_K, val |-> Str(<<"v">>)]>>}

NextSession ==
    \/ \E packages \in SessionPackageLists : Negotiate(packages)
    \/ \E package \in SessionCallPackages, arguments \in SessionArguments,
          min_version \in CallVersions, max_version \in CallVersions :
            Call(package, <<"m">>, arguments, min_version, max_version, auth)

SpecSession == Init /\ [][NextSession]_vars

(***************************************************************************)
(* SpecBase: FuzzballBase character by character.  The server writes text  *)
(* in pieces, each of which arrives whole and joins what the socket holds; *)
(* the client calls read, readline, write, login, close and quit, one at a *)
(* time.  readline is stepped at its selects and its recv, where it waits  *)
(* for the server.                                                         *)
(***************************************************************************)
\* pieces of text the server writes in one behaviour of SpecBase
MaxPieces == 4

UPPER ==
    <<"A", "B", "C", "D", "E", "F", "G", "H", "I", "J", "K", "L", "M", "N", "O", "P",
      "Q", "R", "S", "T", "U", "V", "W", "X", "Y", "Z">>

LOWER ==
    <<"a", "b", "c", "d", "e", "f", "g", "h", "i", "j", "k", "l", "m", "n", "o", "p",
      "q", "r", "s", "t", "u", "v", "w", "x", "y", "z">>

\* s.lower()
lower(s) ==
    [i \in 1..Len(s) |->
        IF \E j \in 1..26 : UPPER[j] = s[i]
        THEN LOWER[CHOOSE j \in 1..26 : UPPER[j] = s[i]]
        ELSE s[i]]

\* "either that player does not exist"
NO_PLAYER ==
    <<"e", "i", "t", "h", "e", "r", " ", "t", "h", "a", "t", " ", "p", "l", "a", "y",
      "e", "r", " ", "d", "o", "e", "s", " ", "n", "o", "t", " ", "e", "x", "i", "s",
      "t">>

\* how the server refuses a login
REFUSAL ==
    <<"E", "i", "t", "h", "e", "r", " ", "t", "h", "a", "t", " ", "p", "l", "a", "y",
      "e", "r", " ", "d", "o", "e", "s", " ", "n", "o", "t", " ", "e", "x", "i", "s",
      "t", ".">>

\* "connect %s %s\r\n" % (user, password) for the user u and the password p
CONNECT ==
    <<"c", "o", "n", "n", "e", "c", "t", " ", "u", " ", "p", "\r", "\n">>

QUIT == <<"Q", "U", "I", "T", "\r", "\n">>

\* what the server writes in one piece; it ends its lines with CR LF
Pieces == {<<"a">>, <<"\r">>, <<"\n">>, REFUSAL}

\* what selector.select reports: there is text to take or the peer has shut
\* down; a socket that close() has closed is never reported
ready == base.socket = "open" /\ (base.arrived # <<>> \/ peer_closed)

\* an operation returns value (kind "str"), None or False, or raises err
returns(b, op, kind, value, err) ==
    [b EXCEPT !.pc = "idle", !.caller = "",
              !.result = [op |-> op, kind |-> kind, value |-> value, err |-> err]]

\* login once its readline(-1) has returned
login_return(b, kind, line) ==
    IF kind = "None" THEN returns(b, "login", "raise", <<>>, "AttributeError")
    ELSE IF contains(lower(line), NO_PLAYER) THEN returns(b, "login", "False", line, "")
    ELSE returns([b EXCEPT !.lines = <<line>> \o @], "login", "None", line, "")

\* readline returns to login or to the caller
readline_return(b, kind, line) ==
    IF b.caller = "login" THEN login_return(b, kind, line)
    ELSE returns([b EXCEPT !.returned = IF kind = "str" /\ line # <<>>
                                         THEN Append(@, line) ELSE @],
                 "readline", kind, line, "")

\* readline(timeout) up to its first select: a queued line that is not
\* blank; else on to recv if select reports the socket (event), "" after
\* the timeout, and a wait in select if there is no timeout
readline_start(b, timeout, event) ==
    LET q == drop_blanks(b.lines)
    IN  IF q # <<>> THEN readline_return([b EXCEPT !.lines = Tail(q)], "str", Head(q))
        ELSE IF event THEN [b EXCEPT !.lines = <<>>, !.pc = "recv"]
        ELSE IF timeout < 0 THEN [b EXCEPT !.lines = <<>>, !.pc = "select"]
        ELSE readline_return([b EXCEPT !.lines = <<>>], "str", <<>>)

\* readline from "buffer_value = self.buffer.getvalue()" to the call
\* readline(False)
readline_split(b) ==
    LET buffer_value == b.buffer
        segments == buffer_lines(buffer_value)
        incomplete == buffer_value = <<>> \/ buffer_value[Len(buffer_value)] # "\n"
    IN  [b EXCEPT !.buffer = IF incomplete THEN segments[Len(segments)] ELSE <<>>,
                  !.lines = IF incomplete THEN SubSeq(segments, 1, Len(segments) - 1)
                            ELSE segments,
                  !.pc = "again"]

\* close(): self.socket is None after it, and None has no shutdown
close(b, op) ==
    IF b.socket = "None" THEN returns(b, op, "raise", <<>>, "AttributeError")
    ELSE returns([b EXCEPT !.socket = "None", !.arrived = <<>>, !.only_readline = FALSE],
                 op, "None", <<>>, "")

InitBase ==
    /\ base = base_start
    /\ written = <<>>
    /\ peer_closed = FALSE
    /\ sent = 0
    /\ pc = "idle"
    /\ auth = <<>>
    /\ catalog = <<>>
    /\ client_negotiated = {}
    /\ inflight = <<>>
    /\ incoming = <<>>
    /\ lines = <<>>
    /\ idx = 0
    /\ tail_lines = <<>>
    /\ locals = process_start
    /\ last_call = NoCall
    /\ last_negotiate = NoNegotiate
    /\ handshake = handshake_start
    /\ version_in = <<>>
    /\ version_out = <<>>
    /\ text_in = <<>>
    /\ escaped = <<>>
    /\ unescaped = <<>>

\* the server writes a piece of text, and it arrives
ServerWrites(text) ==
    /\ base.socket = "open"
    /\ ~peer_closed
    /\ sent < MaxPieces
    /\ text = <<"\n">> => (base.stream # <<>> /\ base.stream[Len(base.stream)] = "\r")
    /\ sent' = sent + 1
    /\ base' = [base EXCEPT !.arrived = @ \o text, !.stream = @ \o text]
    /\ UNCHANGED <<session_vars, inflight, incoming, peer_closed, process_vars, pure_vars,
                   handshake_vars>>

\* read(size, timeout); a recv that would block returns when there is
\* something to return
Read(size, timeout) ==
    /\ pc = "idle"
    /\ base.pc = "idle"
    /\ timeout < 0 => (ready \/ base.socket = "None")
    /\ LET b == [base EXCEPT !.only_readline = FALSE]
       IN  base' = IF timeout >= 0 /\ ~ready THEN returns(b, "read", "str", <<>>, "")
                   ELSE IF base.socket = "None"
                   THEN returns(b, "read", "raise", <<>>, "AttributeError")
                   ELSE returns([b EXCEPT !.arrived = From(@, size)], "read", "str",
                                Upto(base.arrived, size), "")
    /\ UNCHANGED <<session_vars, transport_vars, process_vars, pure_vars, handshake_vars>>

\* readline(timeout), to where it returns or waits
Readline(timeout) ==
    /\ pc = "idle"
    /\ base.pc = "idle"
    /\ base' = readline_start(base, timeout, ready)
    /\ UNCHANGED <<session_vars, transport_vars, process_vars, pure_vars, handshake_vars>>

\* readline: its select without a timeout reports the socket
ReadlineSelect ==
    /\ base.pc = "select"
    /\ ready
    /\ base' = [base EXCEPT !.pc = "recv"]
    /\ UNCHANGED <<session_vars, transport_vars, process_vars, pure_vars, handshake_vars>>

\* readline: line = self.socket.recv(1024), "if line == ''" and
\* self.buffer.write(line)
ReadlineRecv ==
    /\ base.pc = "recv"
    /\ LET line == Upto(base.arrived, 1024)
       IN  base' = IF line = <<>> THEN readline_return(base, "None", <<>>)
                   ELSE [base EXCEPT !.buffer = @ \o line, !.arrived = From(@, 1024),
                                     !.pc = "more"]
    /\ UNCHANGED <<session_vars, transport_vars, process_vars, pure_vars, handshake_vars>>

\* readline: ev = self.selector.select(0.1), then recv again or the break
\* and the split of the buffer
ReadlineMore ==
    /\ base.pc = "more"
    /\ base' = IF ready THEN [base EXCEPT !.pc = "recv"] ELSE readline_split(base)
    /\ UNCHANGED <<session_vars, transport_vars, process_vars, pure_vars, handshake_vars>>

\* readline: return self.readline(False)
ReadlineAgain ==
    /\ base.pc = "again"
    /\ base' = readline_start(base, 0, ready)
    /\ UNCHANGED <<session_vars, transport_vars, process_vars, pure_vars, handshake_vars>>

\* write(s); sendall to a peer that has shut down is taken to succeed, as
\* the first one does
Write(s) ==
    /\ pc = "idle"
    /\ base.pc = "idle"
    /\ base' = returns(base, "write", IF write_error = "" THEN "None" ELSE "raise", <<>>,
                       write_error)
    /\ written' = IF write_error = "" THEN Append(written, s) ELSE written
    /\ Len(written') <= MaxWritten
    /\ UNCHANGED <<auth, catalog, client_negotiated, last_call, last_negotiate,
                   transport_vars, process_vars, pure_vars, handshake_vars>>

\* login(user, password), to where it returns or its readline(-1) waits
Login ==
    /\ pc = "idle"
    /\ base.pc = "idle"
    /\ base' = IF write_error # "" THEN returns(base, "login", "raise", <<>>, write_error)
               ELSE readline_start([base EXCEPT !.caller = "login",
                                                !.only_readline = FALSE], -1, ready)
    /\ written' = IF write_error = "" THEN Append(written, CONNECT) ELSE written
    /\ Len(written') <= MaxWritten
    /\ UNCHANGED <<auth, catalog, client_negotiated, last_call, last_negotiate,
                   transport_vars, process_vars, pure_vars, handshake_vars>>

\* close().  Of the lines that have arrived, those that a recv of readline
\* had moved to self.lines stay, and what the socket still held is gone:
\* incoming does not tell them apart, so how many stay is a choice.
Close ==
    /\ pc = "idle"
    /\ base.pc = "idle"
    /\ base' = close(base, "close")
    /\ \E k \in 0..Len(incoming) :
          incoming' = IF base.socket = "None" THEN incoming ELSE Upto(incoming, k)
    /\ UNCHANGED <<session_vars, inflight, peer_closed, sent, process_vars, pure_vars,
                   handshake_vars>>

\* quit(): write("QUIT\r\n") and close()
Quit ==
    /\ pc = "idle"
    /\ base.pc = "idle"
    /\ base' = IF write_error # "" THEN returns(base, "quit", "raise", <<>>, write_error)
               ELSE close(base, "quit")
    /\ written' = IF write_error = "" THEN Append(written, QUIT) ELSE written
    /\ Len(written') <= MaxWritten
    /\ \E k \in 0..Len(incoming) :
          incoming' = IF base.socket = "None" THEN incoming ELSE Upto(incoming, k)
    /\ UNCHANGED <<auth, catalog, client_negotiated, last_call, last_negotiate, inflight,
                   peer_closed, sent, process_vars, pure_vars, handshake_vars>>

ReadTimeouts == {-1, 0}

ReadSizes == {8194}

\* The server writes and shuts down; the client reads.
NextBase ==
    \/ \E text \in Pieces : ServerWrites(text)
    \/ ServerClose
    \/ \E size \in ReadSizes, timeout \in ReadTimeouts : Read(size, timeout)
    \/ \E timeout \in ReadTimeouts : Readline(timeout)
    \/ ReadlineSelect
    \/ ReadlineRecv
    \/ ReadlineMore
    \/ ReadlineAgain

SpecBase == InitBase /\ [][NextBase]_vars

(***************************************************************************)
(* SpecLogin: the client logs in, reads lines, writes, closes and quits    *)
(* while the server answers.                                               *)
(***************************************************************************)
NextLogin ==
    \/ \E text \in Pieces : ServerWrites(text)
    \/ ServerClose
    \/ Login
    \/ Readline(0)
    \/ ReadlineSelect
    \/ ReadlineRecv
    \/ ReadlineMore
    \/ ReadlineAgain
    \/ Write(<<"x", "\r", "\n">>)
    \/ Close
    \/ Quit

SpecLogin == InitBase /\ [][NextLogin]_vars

(***************************************************************************)
(* SpecClosing: the client calls, writes, polls process and closes while   *)
(* the server sends lines of its own.                                      *)
(***************************************************************************)
ClosingLines(a) ==
    {header_line(TAG_AB_M, a, ARGS_STRING),
     header_line(TAG_AB_M, a, ARGS_LIST_7),
     <<"h", "e", "l", "l", "o">>}

NextClosing ==
    \/ \E line \in ClosingLines(auth) : ServerSend(line)
    \/ \E arguments \in SessionArguments : Call(PKG_AB, <<"m">>, arguments, <<>>, <<>>, auth)
    \/ Write(<<"x", "\r", "\n">>)
    \/ Close
    \/ Process
    \/ ProcessLine
    \/ ProcessTail
    \/ ProcessReturn

SpecClosing == Init /\ [][NextClosing]_vars

(***************************************************************************)
(* SpecParse: the client polls process while the server sends headers with *)
(* the session's auth key, well formed and not, and the lines of a         *)
(* multi-line message.                                                     *)
(***************************************************************************)
\* k "v"
ARGS_NO_COLON == <<" ", "k", " ", "\"", "v", "\"">>
\* k: v
ARGS_BARE == <<" ", "k", ":", " ", "v">>
\* k: v "w"
ARGS_BARE_QUOTED == <<" ", "k", ":", " ", "v", " ", "\"", "w", "\"">>
\* k: "v
ARGS_OPEN_QUOTE == <<" ", "k", ":", " ", "\"", "v">>
\* k: "v\
ARGS_OPEN_ESCAPE == <<" ", "k", ":", " ", "\"", "v", "\\">>
\* k:   "v"
ARGS_SPACES == <<" ", "k", ":", " ", " ", " ", "\"", "v", "\"">>

ParseArguments ==
    {ARGS_NO_COLON, ARGS_BARE, ARGS_BARE_QUOTED, ARGS_OPEN_QUOTE, ARGS_OPEN_ESCAPE,
     ARGS_SPACES, ARGS_LIST_7}

ParseLines(a) ==
    {header_line(TAG_AB_M, a, args) : args \in ParseArguments}
    \cup {<<"#", "$", "#", "*", " ", "7", " ", "t", ":", " ", "x">>,
          <<"#", "$", "#", ":", " ", "7">>}

NextParse ==
    \/ \E line \in ParseLines(auth) : ServerSend(line)
    \/ ServerClose
    \/ Process
    \/ ProcessLine
    \/ ProcessTail
    \/ ProcessReturn

SpecParse == Init /\ [][NextParse]_vars

(***************************************************************************)
(* SpecWait: the client polls process while the server sends the header    *)
(* of a multi-line message, its terminator and other text.  A process in   *)
(* its "while multi_liners:" loop goes on reading, and one that has        *)
(* returned gives way to its caller; nothing obliges the server to send.   *)
(***************************************************************************)
WaitLines(a) ==
    {header_line(TAG_AB_M, a, ARGS_LIST_7),
     <<"#", "$", "#", ":", " ", "7">>,
     <<"h", "e", "l", "l", "o">>}

NextWait ==
    \/ \E line \in WaitLines(auth) : ServerSend(line)
    \/ ServerClose
    \/ Process
    \/ ProcessLine
    \/ ProcessTail
    \/ ProcessReturn

SpecWait ==
    /\ Init
    /\ [][NextWait]_vars
    /\ WF_vars(ProcessTail)
    /\ WF_vars(ProcessReturn)

(***************************************************************************)
(* What the claims speak of.                                               *)
(***************************************************************************)
\* the lines process has read so far in this call
consumed == lines \o tail_lines

\* the lines of a written payload, as readline returns them
call_lines(text) ==
    LET NonBlank(l) == l # <<>>
    IN  SelectSeq(buffer_lines(text), NonBlank)

AllStrings(arguments) == \A i \in 1..Len(arguments) : ~arguments[i].val.list

SomeList(arguments) == \E i \in 1..Len(arguments) : arguments[i].val.list

\* the arguments of a call as a dict
RECURSIVE arguments_dict(_)
arguments_dict(arguments) ==
    IF arguments = <<>> THEN EmptyDict
    ELSE put(arguments_dict(SubSeq(arguments, 1, Len(arguments) - 1)),
             arguments[Len(arguments)].key, arguments[Len(arguments)].val)

\* how many list elements a call carries
RECURSIVE total_items(_)
total_items(arguments) ==
    IF arguments = <<>> THEN 0
    ELSE (IF Head(arguments).val.list THEN Len(Head(arguments).val.items) ELSE 0)
         + total_items(Tail(arguments))

\* return_value as the caller sees it
results ==
    LET rv == locals.return_value
    IN  [p \in DOMAIN rv |->
            [i \in 1..Len(rv[p]) |->
                [message |-> rv[p][i].message, parameters |-> rv[p][i].parameters]]]

\* the one message a call should come back as
expected_results(c) ==
    put(EmptyDict, c.package,
        <<[message |-> c.message, parameters |-> arguments_dict(c.arguments)]>>)

\* process has run over exactly the lines of the last call
EchoProcessed ==
    /\ pc \in {"returned", "raised"}
    /\ last_call.made
    /\ last_call.err = ""
    /\ consumed = call_lines(last_call.text)

\* this step of process handles a line
LineStep ==
    \/ pc = "loop" /\ idx' = idx + 1
    \/ pc = "tail" /\ tail_lines' # tail_lines

\* the line it handles
CurLine == IF pc = "loop" THEN lines[idx + 1] ELSE readline(incoming, peer_closed).line

\* a multi-line message is open: its header was accepted, it is not committed
Reassembling ==
    /\ locals.multi_liners # <<>>
    /\ locals.current_req.set
    /\ \A p \in DOMAIN locals.return_value :
          \A i \in 1..Len(locals.return_value[p]) :
             locals.return_value[p][i].id # locals.current_req.id

\* the line was appended to unknown_lines and nothing was delivered
Unrecognized(l) ==
    /\ locals'.unknown_lines = Append(locals.unknown_lines, l)
    /\ locals'.return_value = locals.return_value
    /\ locals'.current_req = locals.current_req

RECURSIVE strip_zeros(_)
strip_zeros(t) == IF t # <<>> /\ Head(t) = "0" THEN strip_zeros(Tail(t)) ELSE t

CONT_PREFIX == MCP_PREFIX \o <<"*", SP>>
TERM_PREFIX == MCP_PREFIX \o <<":", SP>>

\* "#$#* " data-tag " " key ": " value
IsContinuation(l) ==
    /\ startswith(l, CONT_PREFIX)
    /\ contains(From(l, 5), <<SP>>)
    /\ contains(From(l, 5), <<":", SP>>)
    /\ find(From(l, 5), <<SP>>) < find(From(l, 5), <<":", SP>>)

cont_tag(l) == Upto(From(l, 5), find(From(l, 5), <<SP>>) - 1)

cont_key(l) ==
    SubSeq(From(l, 5), find(From(l, 5), <<SP>>) + 1, find(From(l, 5), <<":", SP>>) - 1)

cont_value(l) == From(From(l, 5), find(From(l, 5), <<":", SP>>) + 1)

\* "#$#: " data-tag
IsTerminator(l) == startswith(l, TERM_PREFIX) /\ Len(l) > 5

term_tag(l) == From(l, 5)

\* "#$#" tag " " auth ...
IsHeader(l) ==
    /\ startswith(l, MCP_PREFIX)
    /\ Len(l) > 3
    /\ l[4] \notin {"*", ":"}
    /\ Len(split(From(l, 3), <<SP>>, 2)) >= 2

header_tag(l) == split(From(l, 3), <<SP>>, 2)[1]

header_auth(l) == split(From(l, 3), <<SP>>, 2)[2]

\* a header whose arguments are well formed
IsGoodHeader(l) ==
    /\ IsHeader(l)
    /\ Len(split(From(l, 3), <<SP>>, 2)) = 3
    /\ LET s == parse_arguments(split(From(l, 3), <<SP>>, 2)[3], <<>>)
       IN  /\ ~parser_weird(s)
           /\ s.multi_liners # <<>> => DATA_TAG_KEY \in DOMAIN s.parameters

\* the negotiated packages a tag may belong to
Candidates(tag) ==
    {P \in client_negotiated : tag = P \/ startswith(tag, P \o <<"-">>)}

Longest(S) == CHOOSE P \in S : \A Q \in S : Len(Q) <= Len(P)

\* this step delivered a message of package P with message m, or opened one
DeliveredAs(P, m) ==
    LET rv == locals.return_value
        rv2 == locals'.return_value
    IN  \/ /\ P \in DOMAIN rv2
           /\ Len(rv2[P]) = (IF P \in DOMAIN rv THEN Len(rv[P]) ELSE 0) + 1
           /\ rv2[P][Len(rv2[P])].message = m
        \/ /\ locals'.current_req # locals.current_req
           /\ locals'.current_req.package = P
           /\ locals'.current_req.message = m

(***************************************************************************)
(* The claims.                                                             *)
(***************************************************************************)
\* C1: when process has run over the line that a call with only string
\* arguments wrote, and the package of the call is in the catalog, process
\* returned exactly one message, under that package, with the message and
\* the arguments of the call, and nothing unrecognized.
C1_StringCallRoundTrip ==
    (EchoProcessed /\ AllStrings(last_call.arguments)
        /\ in_catalog(catalog, last_call.package))
    => /\ pc = "returned"
       /\ results = expected_results(last_call)
       /\ locals.unknown_lines = <<>>

\* C2: when process has run over all the lines that a call with a list
\* argument wrote, it returned exactly one message whose parameters are the
\* arguments of the call, with no other key, and nothing unrecognized.
C2_ListCallRoundTrip ==
    (EchoProcessed /\ SomeList(last_call.arguments)
        /\ in_catalog(catalog, last_call.package))
    => /\ pc = "returned"
       /\ results = expected_results(last_call)
       /\ locals.unknown_lines = <<>>

\* C3: a continuation line read during a reassembly whose data tag differs
\* from the header's only by leading zeros, for a key of the header, is
\* appended to the list of its key and is not put in unknown_lines.
C3_LeadingZeroTagMatches ==
    [][(/\ LineStep
        /\ Reassembling
        /\ IsContinuation(CurLine)
        /\ ~locals.data_tag.list
        /\ cont_tag(CurLine) # locals.data_tag.str
        /\ strip_zeros(cont_tag(CurLine)) = strip_zeros(locals.data_tag.str)
        /\ cont_key(CurLine) \in DOMAIN locals.current_req.parameters
        /\ locals.current_req.parameters[cont_key(CurLine)].list)
       => /\ locals'.unknown_lines = locals.unknown_lines
          /\ locals'.current_req.parameters[cont_key(CurLine)].items
               = Append(locals.current_req.parameters[cont_key(CurLine)].items,
                        cont_value(CurLine))]_vars

\* C4: no line that process reads makes it raise.
C4_NoLineRaises == [][LineStep => pc' # "raised"]_vars

\* C5: every line that process reads, and does not raise on, is appended to
\* unknown_lines or changes what is delivered (return_value, current_req).
C5_EveryLineAccounted ==
    [][(LineStep /\ pc' # "raised")
       => \/ locals'.unknown_lines = Append(locals.unknown_lines, CurLine)
          \/ locals'.return_value # locals.return_value
          \/ locals'.current_req # locals.current_req]_vars

\* C6: a header line whose auth field is not the session's auth key is
\* appended to unknown_lines and delivers nothing, in the for loop and in a
\* reassembly alike.
C6_WrongAuthUnrecognized ==
    [][(LineStep /\ IsHeader(CurLine) /\ header_auth(CurLine) # auth)
       => Unrecognized(CurLine)]_vars

\* C7: once packages are negotiated, a well-formed header with the session's
\* auth key, read outside a reassembly, is delivered under the longest
\* negotiated package P that its tag equals or extends by "-", with the rest
\* of the tag as the message; with no such package it is unrecognized.
C7_LongestNegotiatedPackage ==
    [][(/\ LineStep
        /\ locals.multi_liners = <<>>
        /\ client_negotiated # {}
        /\ IsGoodHeader(CurLine)
        /\ header_auth(CurLine) = auth)
       => LET tag == header_tag(CurLine)
              P == Longest(Candidates(tag))
          IN  IF Candidates(tag) = {} THEN Unrecognized(CurLine)
              ELSE DeliveredAs(P, IF tag = P THEN <<>> ELSE From(tag, Len(P) + 1))]_vars

\* C8: escape is the text with every backslash doubled and every double
\* quote prefixed by a backslash, and unescape(escape(s)) = s.
RECURSIVE escape_by_char(_)
escape_by_char(s) ==
    IF s = <<>> THEN <<>>
    ELSE (IF Head(s) = BS THEN <<BS, BS>>
          ELSE IF Head(s) = DQ THEN <<BS, DQ>>
          ELSE <<Head(s)>>) \o escape_by_char(Tail(s))

C8_EscapeRoundTrip ==
    /\ pc \in {"unescape", "done"} => escaped = escape_by_char(text_in)
    /\ pc = "done" => unescaped = text_in

C8_Witness ==
    /\ pc = "done"
    /\ text_in = <<BS, DQ, "a">>
    /\ escaped = <<BS, BS, BS, DQ, "a">>
    /\ unescaped = text_in

\* C9: the lines a call with list arguments writes are one header, one
\* continuation line per list element, and then exactly one terminator, all
\* with the one data tag.
C9_OneHeaderOneTerminator ==
    (last_call.made /\ last_call.err = "" /\ SomeList(last_call.arguments))
    => LET ls == call_lines(last_call.text)
           n == total_items(last_call.arguments)
       IN  /\ Len(ls) = n + 2
           /\ \E tag \in Tags :
                /\ IsHeader(ls[1])
                /\ contains(ls[1], DATA_TAG_KEY \o <<":", SP, DQ>> \o tag \o <<DQ>>)
                /\ \A i \in 2..(n + 1) : IsContinuation(ls[i]) /\ cont_tag(ls[i]) = tag
                /\ ls[n + 2] = TERM_PREFIX \o tag

\* C10: a terminator read during a reassembly whose data tag is not the
\* header's is appended to unknown_lines and leaves the reassembly open.
C10_MismatchedTerminatorIgnored ==
    [][(/\ LineStep
        /\ Reassembling
        /\ IsTerminator(CurLine)
        /\ ~locals.data_tag.list
        /\ strip_zeros(term_tag(CurLine)) # strip_zeros(locals.data_tag.str))
       => /\ Unrecognized(CurLine)
          /\ locals'.multi_liners = locals.multi_liners]_vars

(***************************************************************************)
(* The claims about negotiate and the checks of call.                      *)
(***************************************************************************)
catalog_names == {catalog[i].name : i \in 1..Len(catalog)}

\* the catalog's range of a name
catalog_range(name) == catalog[CHOOSE i \in 1..Len(catalog) : catalog[i].name = name]

\* "#$#mcp-negotiate-end" has been written
EndWritten == \E i \in 1..Len(written) : contains(written[i], negotiate_end(auth))

\* a mcp-negotiate-can line of this package and range has been written
CanWritten(name, lo, hi) ==
    \E i \in 1..Len(written) : contains(written[i], negotiate_can(auth, name, lo, hi))

\* name, or name:lo:hi
entry_name(e) == split(e, <<":">>, -1)[1]

entry_has_range(e) == Len(split(e, <<":">>, -1)) = 3

entry_lo(e) == IF entry_has_range(e) THEN split(e, <<":">>, -1)[2]
               ELSE catalog_range(entry_name(e)).min

entry_hi(e) == IF entry_has_range(e) THEN split(e, <<":">>, -1)[3]
               ELSE catalog_range(entry_name(e)).max

\* this step is a negotiate(packages) of the caller
NegotiateStep == last_negotiate' # last_negotiate /\ last_call' = last_call

\* this step is a call
CallStep == last_call' # last_call

\* exactly one of min_version and max_version was given
OneVersion(c) == (c.min_version = <<>>) # (c.max_version = <<>>)

\* C11: once a negotiate has written mcp-negotiate-end, a later negotiate
\* fails as "only once", writes nothing and adds nothing to the negotiated set.
C11_NegotiateOnce ==
    [][(EndWritten /\ NegotiateStep)
       => /\ last_negotiate'.err = "NegotiateOnce"
          /\ written' = written
          /\ client_negotiated' = client_negotiated]_vars

\* C12: a call on a package that is not in a non-empty negotiated set fails
\* as "not negotiated", writes nothing and leaves the negotiated set alone.
C12_CallNotNegotiated ==
    [][(CallStep /\ client_negotiated # {} /\ last_call'.package \notin client_negotiated)
       => /\ last_call'.err = "NotNegotiated"
          /\ written' = written
          /\ client_negotiated' = client_negotiated]_vars

C12_Witness ==
    /\ last_call.made
    /\ last_call.err = "NotNegotiated"
    /\ last_call.package = PKG_A
    /\ PKG_AB \in client_negotiated
    /\ PKG_A \notin client_negotiated
    /\ Len(written) = 2

\* C13: every negotiated name is a name of the catalog; a negotiate that ran
\* fails as "not available" when an entry names a package the catalog has
\* not, with or without a range, and otherwise negotiates every entry and
\* has written its can line, with the caller's range when given and with the
\* catalog's otherwise.
C13_NegotiatedInCatalog ==
    /\ client_negotiated \subseteq catalog_names
    /\ (last_negotiate.made /\ last_negotiate.err # "NegotiateOnce")
       => LET ps == last_negotiate.packages
          IN  IF \E i \in 1..Len(ps) : entry_name(ps[i]) \notin catalog_names
              THEN last_negotiate.err = "NotAvailable"
              ELSE /\ last_negotiate.err = ""
                   /\ \A i \in 1..Len(ps) :
                        /\ entry_name(ps[i]) \in client_negotiated
                        /\ CanWritten(entry_name(ps[i]), entry_lo(ps[i]), entry_hi(ps[i]))

C13_Witness ==
    /\ last_negotiate.made
    /\ last_negotiate.packages = <<PKG_C_RANGE>>
    /\ last_negotiate.err = "NotAvailable"
    /\ PKG_C \notin client_negotiated

\* C14: after a negotiate that succeeded, mcp-negotiate is in the negotiated
\* set and its can line was written.
C14_McpNegotiateAlwaysAdded ==
    (last_negotiate.made /\ last_negotiate.err = "")
    => /\ MCP_NEGOTIATE \in client_negotiated
       /\ \E i \in 1..Len(written) :
             contains(written[i], <<"p", "a", "c", "k", "a", "g", "e", ":", " ", DQ>>
                                   \o MCP_NEGOTIATE \o <<DQ>>)

\* C15: a call given exactly one of min_version and max_version fails as
\* "both or neither", whether or not the session has negotiated.
C15_OneVersionRejected ==
    (last_call.made /\ OneVersion(last_call)) => last_call.err = "BothVersions"

(***************************************************************************)
(* The claims about the handshake and version_compare.                     *)
(***************************************************************************)
\* the versions the server advertises here
AdvertisedVersions == {V10, V20, V21, V22, V30}

\* lo <= 2.1 <= hi under version_compare
ContainsProtocol(lo, hi) ==
    /\ version_compare(lo, PROTOCOL_VERSION).val <= 0
    /\ version_compare(PROTOCOL_VERSION, hi).val <= 0

\* the wait for the header ended on this advertisement, within its tries
Advertised(lo, hi) ==
    /\ handshake.tries \in 1..2
    /\ handshake.mcp_proto = advertisement(lo, hi)

\* this step is a readline of the wait for the header that returned a line
HeaderLineStep ==
    /\ pc = "header"
    /\ handshake'.tries = handshake.tries + 1
    /\ readline(incoming, peer_closed).kind = "line"

\* the end line of the catalog, with the session's key, has been read
EndRead ==
    \E i \in 1..Len(handshake.read) :
        startswith(handshake.read[i], chomp(negotiate_end(auth)))

\* the catalog that the can lines with the session's key make, in order
RECURSIVE collected(_)
collected(ls) ==
    IF ls = <<>> THEN <<>>
    ELSE LET before == collected(SubSeq(ls, 1, Len(ls) - 1))
             l == ls[Len(ls)]
             Is(e) == l = chomp(negotiate_can(auth, e[1], e[2], e[3]))
             known == {e \in {PKG_A, PKG_AB, PKG_C} \X {V10, V20} \X {V10, V20} : Is(e)}
         IN  IF known = {} THEN before
             ELSE LET e == CHOOSE x \in known : TRUE
                  IN  catalog_put(before, e[1], e[2], e[3])

C17_BannerDiscarded ==
    [][(/\ HeaderLineStep
        /\ strip(readline(incoming, peer_closed).line) # <<>>
        /\ ~match_header(strip(readline(incoming, peer_closed).line)).ok)
       => handshake'.err = "" /\ pc' = "header"]_vars

\* C18: the wait for the header fails as "no response" exactly when three
\* reads in a row returned nothing.
C18_TimeoutOnlyAfterThreeEmpty ==
    (handshake.err = "NoResponse") <=> (handshake.tries = 3 /\ handshake.mcp_proto = <<>>)

\* C19: once the end line with the session's key has been read the
\* handshake does not fail, and it ends with the catalog of the can lines
\* read before; it times out only when the end line was not read.
C19_EndLineCompletes ==
    /\ EndRead => handshake.err = ""
    /\ pc = "ready" => EndRead /\ catalog = collected(handshake.read)
    /\ handshake.err = "Timeout" => ~EndRead

\* C20: version_compare is a total order: it returns -1, 0 or 1 for every
\* pair, 0 for a version and itself and for no two different versions,
\* opposite values for a pair and its reverse, and it is transitive.
C20_VersionTotalOrder ==
    pc = "compared"
    => LET c == version_out
           v == version_in
       IN  /\ \A i, j \in 1..3 : c[i][j].err = "" /\ c[i][j].val \in {-1, 0, 1}
           /\ \A i \in 1..3 : c[i][i].val = 0
           /\ \A i, j \in 1..3 : c[i][j].val = -c[j][i].val
           /\ \A i, j \in 1..3 : c[i][j].val = 0 => v[i] = v[j]
           /\ \A i, j, k \in 1..3 :
                (c[i][j].val <= 0 /\ c[j][k].val <= 0) => c[i][k].val <= 0

(***************************************************************************)
(* What the claims about versions with several minor components speak of.  *)
(***************************************************************************)
\* the numeric components of a version, or <<>> if it is not a major number
\* and one or more minor numbers separated by points
components(v) ==
    LET parts == split(v, <<".">>, -1)
    IN  IF Len(parts) >= 2 /\ \A i \in 1..Len(parts) : int_ok(parts[i])
        THEN [i \in 1..Len(parts) |-> number(parts[i])]
        ELSE <<>>

\* the lexicographic comparison of two sequences of numbers: -1, 0 or 1
RECURSIVE lexicographic(_, _)
lexicographic(a, b) ==
    IF a = <<>> /\ b = <<>> THEN 0
    ELSE IF a = <<>> THEN -1
    ELSE IF b = <<>> THEN 1
    ELSE IF Head(a) < Head(b) THEN -1
    ELSE IF Head(a) > Head(b) THEN 1
    ELSE lexicographic(Tail(a), Tail(b))

\* C21: for two versions made of a major number and one or more numeric
\* minor components, version_compare returns without error, and what it
\* returns is the lexicographic comparison of their components.
C21_ComponentwiseCompare ==
    pc = "compared"
    => \A i, j \in 1..3 :
          LET a == components(version_in[i])
              b == components(version_in[j])
          IN  (a # <<>> /\ b # <<>>)
              => /\ version_out[i][j].err = ""
                 /\ version_out[i][j].val = lexicographic(a, b)

(***************************************************************************)
(* What the claims about the transport speak of.                           *)
(***************************************************************************)
\* the complete lines of text that are not empty: what stands before each
\* CR LF, in order
complete_lines(text) ==
    LET segments == split(text, CRLF, -1)
    IN  SelectSeq(SubSeq(segments, 1, Len(segments) - 1), LAMBDA l : l # <<>>)

IsPrefix(a, b) == Len(a) <= Len(b) /\ SubSeq(b, 1, Len(a)) = a

\* the last operation was op and it returned Empty
ReturnedEmpty(op) ==
    base.result.op = op /\ base.result.kind = "str" /\ base.result.value = <<>>

\* the last operation was op and it returned Closed
ReturnedClosed(op) == base.result.op = op /\ base.result.kind = "None"

\* C22: while the caller uses nothing but readline, the lines it has been
\* given are the first complete non-empty lines of what the server has sent,
\* in order and without their CR LF; and once readline has answered Empty or
\* Closed with nothing left in the socket, they are all of them: only an
\* unfinished last line is held back.
C22_ReadlineGivesTheLines ==
    base.only_readline
    => /\ IsPrefix(base.returned, complete_lines(base.stream))
       /\ (/\ base.pc = "idle"
           /\ ReturnedEmpty("readline") \/ ReturnedClosed("readline")
           /\ base.arrived = <<>>)
          => base.returned = complete_lines(base.stream)

\* a step in which read returns
ReadReturns == \E size \in ReadSizes, timeout \in ReadTimeouts : Read(size, timeout)

\* a step in which readline returns to the caller
ReadlineReturns ==
    /\ base.caller = ""
    /\ (\E timeout \in ReadTimeouts : Readline(timeout)) \/ ReadlineRecv \/ ReadlineAgain
    /\ base'.pc = "idle"

\* the peer has shut down and neither the socket nor the line queue holds
\* anything to return
ShutDownAndDrained ==
    /\ peer_closed
    /\ base.socket = "open"
    /\ base.arrived = <<>>
    /\ drop_blanks(base.lines) = <<>>

\* C23: once the peer has shut down and nothing is left to return, read and
\* readline answer Closed (None), not Empty (the empty string).
C23_ShutdownIsClosed ==
    [][ShutDownAndDrained
       => /\ ReadReturns => base'.result.kind = "None"
          /\ ReadlineReturns => base'.result.kind = "None"]_vars

\* this step is a write() of the caller's
WriteStep == base'.result.op = "write" /\ base' # base

\* C24: after close(), every call, every write and every process fails and
\* delivers nothing: a call and a write raise and send nothing, and process
\* raises instead of returning or going through lines, whatever the line
\* queue held when the session was closed.
C24_ClosedSessionFails ==
    [][base.socket = "None"
       => /\ CallStep => (last_call'.err # "" /\ written' = written)
          /\ WriteStep => (base'.result.kind = "raise" /\ written' = written)
          /\ Process => pc' = "raised"]_vars

\* C25: close() on a transport that is closed already, after close() or
\* after quit(), returns without error and leaves it closed.
C25_CloseIdempotent ==
    base.result.op = "close" => (base.result.kind = "None" /\ base.socket = "None")

\* the last operation was a login that read a line
LoggedIn == base.pc = "idle" /\ base.result.op = "login" /\ base.result.kind # "raise"

\* the line that login read refuses the player
Refused == contains(lower(base.result.value), NO_PLAYER)

\* C26: login has written "connect USER PW" CR LF; it returns False if the
\* line it read holds, in any case of letters, "either that player does not
\* exist", and True otherwise, and then that line is the first of the line
\* queue again.
C26_LoginResult ==
    LoggedIn
    => /\ written # <<>> /\ written[Len(written)] = CONNECT
       /\ Refused => base.result.kind = "False"
       /\ ~Refused => /\ base.result.kind = "True"
                      /\ base.lines # <<>>
                      /\ Head(base.lines) = base.result.value

(***************************************************************************)
(* What the claims about malformed headers and about waiting speak of.     *)
(***************************************************************************)
\* argument texts that are not a sequence of well-formed arguments: a key
\* with no colon before its value, a value that does not start with a double
\* quote, a line that ends inside a quote, and one that ends inside an escape
MalformedArguments ==
    {ARGS_NO_COLON, ARGS_BARE, ARGS_BARE_QUOTED, ARGS_OPEN_QUOTE, ARGS_OPEN_ESCAPE}

\* the for loop handles a line outside a reassembly
HeaderStep == LineStep /\ pc = "loop" /\ locals.multi_liners = <<>>

\* C27: a header with the session's auth key whose argument text is malformed
\* is appended to unknown_lines and gives no message, and one with extra
\* spaces between "k:" and the opening quote gives its message.
C27_MalformedHeaderUnrecognized ==
    [][HeaderStep
       => /\ \A args \in MalformedArguments :
                CurLine = header_line(TAG_AB_M, auth, args) => Unrecognized(CurLine)
          /\ CurLine = header_line(TAG_AB_M, auth, ARGS_SPACES)
             => /\ locals'.unknown_lines = locals.unknown_lines
                /\ \E P \in DOMAIN locals'.return_value :
                      LET ms == locals'.return_value[P]
                      IN  /\ ms # <<>>
                          /\ ms[Len(ms)].parameters = put(EmptyDict, KEY_K, Str(<<"v">>))]_vars

\* C28: a process() that is left with an open multi-line message when its
\* lines are exhausted, and reads on for the terminator, returns or raises
\* in the end, also when the terminator never arrives.
C28_ProcessReturns == (pc = "tail") ~> (pc \in {"returned", "raised"})

(***************************************************************************)
(* What the claims about a negotiation that failed speak of.               *)
(***************************************************************************)
\* "#$#mcp-negotiate-can" auth "package:" and the quoted name
can_line_start(name) ==
    <<"#", "$", "#", "m", "c", "p", "-", "n", "e", "g", "o", "t", "i", "a", "t", "e", "-",
      "c", "a", "n", " ">> \o auth
    \o <<" ", "p", "a", "c", "k", "a", "g", "e", ":", " ", DQ>> \o name \o <<DQ>>

\* the client has written the can line of this package and, after it, the
\* end line
OnTheWire(name) ==
    \E i \in 1..Len(written) :
       LET can == find(written[i], can_line_start(name))
           end == find(written[i], negotiate_end(auth))
       IN  can # 0 /\ end > can

\* C29: whatever negotiates and calls were made, failed ones included, every
\* name in the negotiated set has had its mcp-negotiate-can line and then
\* mcp-negotiate-end written, and so has the package of every call that
\* wrote its header.
C29_NegotiatedIsOnTheWire ==
    /\ \A name \in client_negotiated : OnTheWire(name)
    /\ (last_call.made /\ last_call.err = "") => OnTheWire(last_call.package)

\* this step is a negotiate, or the negotiate of a first call, that failed
\* as "only once" or for a package the server does not have
FailedNegotiateStep ==
    /\ last_negotiate' # last_negotiate
    /\ last_negotiate'.err \in {"NegotiateOnce", "NotAvailable"}

\* C30: a negotiate that fails, of the caller or of a first call, leaves the
\* negotiated set, the catalog and the list it was given as they were and
\* writes nothing.
C30_FailedNegotiateChangesNothing ==
    [][FailedNegotiateStep
       => /\ client_negotiated' = client_negotiated
          /\ catalog' = catalog
          /\ written' = written
          /\ last_negotiate'.packages_after = last_negotiate'.packages]_vars

====
